---- MODULE Spec2Model ----
(***************************************************************************)
(* forwardmebot (src/main.go): a manager that registers Telegram relay     *)
(* bots at run time.  Each registered bot gets one polling goroutine       *)
(* (startBot) that relays user messages to the bot's creator and keeps a   *)
(* per-user ban list and appeal counter in the SQLite table "bots".        *)
(*                                                                         *)
(* The model has the table (db), the manager's maps (bots, creator) and    *)
(* mutex (mu), the running startBot goroutines (workers) with their local  *)
(* appeals map, the update each one handles and the values it has read     *)
(* from the table, and the position of each caller of AddBot / DeleteBot   *)
(* (pc, call).  No handler runs in a transaction and none holds a lock     *)
(* that keeps other goroutines from the table, so a step of a goroutine is *)
(* one call on the store or one bot.Send, with the local work around it;   *)
(* the other goroutines, main() and the end of the process come between    *)
(* any two steps.  The acknowledgement of a callback query, which changes  *)
(* nothing the model records, is taken with the call that follows it.      *)
(* AddBot is a call of NewBotAPI, the locked update of the maps, the start *)
(* of the goroutine, SELECT EXISTS and INSERT, each a step of its own.     *)
(*                                                                         *)
(* Two history variables record what the environment has seen: chat (the   *)
(* inline buttons a bot has put into its chats, which are the only ones a  *)
(* client can press) and last (the step just taken, with the messages it   *)
(* sent).                                                                  *)
(***************************************************************************)
EXTENDS Integers, Sequences, FiniteSets, TLC

\* ------------------------------------------------------------------ bounds

\* startBot goroutines alive at once; /newbot is not taken beyond it.
MaxWorkers == 2

\* Appeals counted for one user: an appeal text is not delivered when the
\* increments in progress could take appeal_counts beyond it.
MaxCount == 4

\* ---------------------------------------------------------------- universe

ValidTokens == {"AAA", "BBB"}          \* credentials getMe accepts
Tokens      == ValidTokens \cup {"bad"}  \* "bad": NewBotAPI returns an error
EndUsers    == {42, 43}
\* The end user who sends commands and presses buttons; the other end user
\* sends plain messages only (both can be banned and unbanned).
Pressers    == {42}
\* Chats that send /newbot; the chat id becomes the bot's creatorID.
Creators    == {100, 101}
MainCreators == {100}

\* CommandArguments() of /ban and /unban: "", a text ParseInt rejects, or an id.
ArgEmpty  == [kind |-> "empty", id |-> 0]
ArgNotInt == [kind |-> "notint", id |-> 0]
ArgId(u)  == [kind |-> "id", id |-> u]

\* Thread of main() and a second caller of the BotManager methods.
MainThread == "main"
ApiThread  == "api"
Threads    == {MainThread, ApiThread}

\* ------------------------------------------------------------------- store
\* Table bots(token PRIMARY KEY, creator_id, blocked_users, appeal_counts).
\* A row's blocked_users is the comma-joined list of ids, kept as the list;
\* <<>> is the empty string.  appeal_counts is the JSON object keyed by the
\* decimal id; a key that is absent reads 0, and "" and "{}" both are the
\* map with no key.

NoCounts == [u \in EndUsers |-> 0]

NewRow(token, creatorID) ==
    [token |-> token, creator_id |-> creatorID,
     blocked_users |-> <<>>, appeal_counts |-> NoCounts]

RowsOf(rows, token) == {i \in 1..Len(rows) : rows[i].token = token}

HasRow(rows, token) == RowsOf(rows, token) # {}

\* QueryRow: the first row that matches.
FirstRow(rows, token) ==
    rows[CHOOSE i \in RowsOf(rows, token) : \A j \in RowsOf(rows, token) : i <= j]

\* SELECT blocked_users ...: sql.ErrNoRows leaves the Go string "".
SelectBlockedUsers(rows, token) ==
    IF HasRow(rows, token) THEN FirstRow(rows, token).blocked_users ELSE <<>>

SelectAppealCounts(rows, token) ==
    IF HasRow(rows, token) THEN FirstRow(rows, token).appeal_counts ELSE NoCounts

\* UPDATE ... WHERE token = ?: no matching row is no error.
UpdateBlockedUsers(rows, token, v) ==
    [i \in 1..Len(rows) |->
        IF rows[i].token = token THEN [rows[i] EXCEPT !.blocked_users = v]
        ELSE rows[i]]

UpdateAppealCounts(rows, token, v) ==
    [i \in 1..Len(rows) |->
        IF rows[i].token = token THEN [rows[i] EXCEPT !.appeal_counts = v]
        ELSE rows[i]]

\* SELECT EXISTS answering false: the check skipped.
SelectExists_Never(rows, token) == FALSE

SelectExists(rows, token) == HasRow(rows, token)

\* The table declared without PRIMARY KEY: every INSERT adds a row.
InsertBot_NoKey(rows, token, creatorID) ==
    [err |-> FALSE, rows |-> Append(rows, NewRow(token, creatorID))]

\* INSERT INTO bots (token, creator_id): the PRIMARY KEY rejects a second row.
InsertBot(rows, token, creatorID) ==
    IF HasRow(rows, token)
    THEN [err |-> TRUE, rows |-> rows]
    ELSE [err |-> FALSE, rows |-> Append(rows, NewRow(token, creatorID))]


\* DELETE FROM bots WHERE token = ?
DeleteRows(rows, token) == SelectSeq(rows, LAMBDA r : r.token # token)

\* CREATE TABLE IF NOT EXISTS on the file data/bots.db: the rows stay.
CreateTableIfNotExists(rows) == rows


\* ------------------------------------------------- ban / appeal functions
\* The local work of the functions between their store calls.

InList(list, userID) == \E i \in 1..Len(list) : list[i] = userID

RemoveId(list, userID) == SelectSeq(list, LAMBDA id : id # userID)

\* getAppealCount: one SELECT; an error of the query answers 0.
getAppealCount(rows, token, userID, fails) ==
    IF fails THEN 0 ELSE SelectAppealCounts(rows, token)[userID]

\* The loop over the split list left after its first element.
isUserBlocked_FirstOnly(rows, token, userID, fails) ==
    LET blockedList == SelectBlockedUsers(rows, token)
    IN ~fails /\ blockedList # <<>> /\ blockedList[1] = userID

\* isUserBlocked: one SELECT; an error of the query answers false.
isUserBlocked(rows, token, userID, fails) ==
    ~fails /\ InList(SelectBlockedUsers(rows, token), userID)

\* incrementAppealCount, lines 105-116: the map written back by the UPDATE.
incrementedCounts(appealCounts, userID) ==
    [appealCounts EXCEPT ![userID] = @ + 1]

\* blockUser, lines 171-177: the list written back by the UPDATE.
newBlockedUsers(blockedUsers, userID) ==
    IF blockedUsers # <<>> THEN Append(blockedUsers, userID) ELSE <<userID>>

\* unblockUser writing the empty object over appeal_counts.
resetCounts_All(appealCounts, userID) == NoCounts

\* unblockUser, lines 229-239: the map written back by the second UPDATE.
resetCounts(appealCounts, userID) == [appealCounts EXCEPT ![userID] = 0]

\* Lines 377, 422, 491: appealCount >= 3.
capped(appealCount) == appealCount >= 3

\* ------------------------------------------------------ updates and sends

NoReply       == [kind |-> "none", id |-> 0]
ReplyPlain    == [kind |-> "plain", id |-> 0]  \* ReplyToMessage.ForwardFrom == nil
ReplyFwd(u)   == [kind |-> "fwd", id |-> u]    \* ReplyToMessage.ForwardFrom.ID == u

Message(from, cmd, arg, reply, text) ==
    [type |-> "message", from |-> from, cmd |-> cmd, arg |-> arg,
     reply |-> reply, text |-> text, sendok |-> TRUE]

\* CallbackQuery with Data = prefix ++ id; sendok: whether bot.Send succeeds.
Callback(prefix, u, sendok) ==
    [type |-> "callback", from |-> 0, cmd |-> prefix, arg |-> ArgId(u),
     reply |-> NoReply, text |-> "", sendok |-> sendok]

NoUpdate ==
    [type |-> "none", from |-> 0, cmd |-> "", arg |-> ArgEmpty,
     reply |-> NoReply, text |-> "", sendok |-> TRUE]

\* A call of bot.Send: the chat, which message, the id its inline button
\* carries (0: no button), the user it is about, and the text it relays.
Send(to, kind, button, about, text) ==
    [to |-> to, kind |-> kind, button |-> button, about |-> about, text |-> text]


\* ------------------------------------------------------------------- state

VARIABLES
    db,       \* rows of table bots, in rowid order
    bots,     \* m.bots: token -> 1 when the map has a *BotAPI for it (0: no entry)
    creator,  \* m.creator: token -> creatorID (0: no entry)
    mu,       \* m.mu: the thread holding the write lock, "" when free
    workers,  \* running startBot goroutines: token, creatorID, appeals, where
              \* the goroutine is (at), the update it handles (ev) and the
              \* locals blockedUsers and appealCounts it has read
    pc,       \* per thread: where it is in AddBot / DeleteBot
    call,     \* per thread: the arguments of the call in progress
    reload,   \* main(): rows of "SELECT token, creator_id FROM bots" still to load
    chat,     \* history: the buttons the bots have sent, and the users whose
              \* appeal text a startBot awaited when the process ended
    last      \* history: the step just taken

vars == <<db, bots, creator, mu, workers, pc, call, reload, chat, last>>

NoCall == [token |-> "", creatorID |-> 0, existed |-> FALSE]

\* A step of main() or of a caller of AddBot / DeleteBot: what ran (op), for
\* which token and creatorID, what the call returned (ret: "ok", "err" or ""
\* when nothing returned) and the messages sent; w is the number of the
\* startBot that took the step, 0 for the others.
\* lowered is the set of <<token, user>> whose count in appeal_counts the step
\* left lower than it was.
Step(op, tok, cid, ev, ret, sends) ==
    [op |-> op, tok |-> tok, cid |-> cid, ev |-> ev, ret |-> ret, sends |-> sends,
     w |-> 0, lowered |-> {}]

\* The <<token, user>> whose count is lower in newrows than in rows.
Lowered(rows, newrows) ==
    {p \in Tokens \X EndUsers :
        SelectAppealCounts(newrows, p[1])[p[2]] < SelectAppealCounts(rows, p[1])[p[2]]}

\* NewBotManager, and main() up to the load loop on an empty data/bots.db.
Init ==
    /\ db = <<>>
    /\ bots = [t \in Tokens |-> 0]
    /\ creator = [t \in Tokens |-> 0]
    /\ mu = ""
    /\ workers = <<>>
    /\ pc = [th \in Threads |-> "idle"]
    /\ call = [th \in Threads |-> NoCall]
    /\ reload = <<>>
    /\ chat = {}
    /\ last = Step("init", "", 0, NoUpdate, "", <<>>)

\* ------------------------------------------------------------ sync.RWMutex
\* m.mu.  Lock first takes the mutex of the writers (rw.w); a caller that
\* finds it taken is queued on it ("lockqueue", "dlockqueue").  With rw.w in
\* hand the writer announces itself, which makes every later RLock block, and
\* waits for the readers that are inside ("lockwait", "dlockwait").  Unlock
\* puts every RLock that blocked meanwhile into the read section and then
\* gives rw.w up.

\* Where handleIncomingMessage is between RLock and the deferred RUnlock.
ReadSection == {"read", "count", "forward.send", "blocked.send", "permanent.send"}

Readers == {w \in 1..Len(workers) : workers[w].at \in ReadSection}

\* A writer has announced itself and waits for the readers.
WriterWaiting == \E th \in Threads : pc[th] \in {"lockwait", "dlockwait"}

\* rw.w is taken: by the writer that holds the lock or by the one that waits
\* for the readers.
WriterMutexHeld == mu # "" \/ WriterWaiting

\* Lock returns to thread th.
CanLock(th) ==
    /\ Readers = {}
    /\ \/ pc[th] \in {"lockwait", "dlockwait"}
       \/ ~WriterMutexHeld

\* RLock returning whatever the writers do.
CanRLock_Always == TRUE

\* RLock returns at once: no writer holds the lock or has announced itself.
CanRLock == mu = "" /\ ~WriterWaiting

\* Unlock, the readers' side: every blocked RLock returns.
ReleaseReaders(ws) ==
    [w \in 1..Len(ws) |->
        IF ws[w].at = "rwait" THEN [ws[w] EXCEPT !.at = "read"] ELSE ws[w]]

\* --------------------------------------------------------------- BotManager

\* tgbotapi.NewBotAPI(token): getMe accepts the credential or not.
ValidateCredential(token) == token \in ValidTokens

\* A return of AddBot in main()'s load loop moves on to the next row.
Returned(th) ==
    IF th = MainThread /\ reload # <<>> THEN Tail(reload) ELSE reload

\* Calls of AddBot that are before "go m.startBot".
Starting == {t \in Threads : pc[t] \in {"lock", "lockqueue", "lockwait", "start"}}

\* AddBot with the map update made before NewBotAPI is known to succeed.
AddBotValidate_StoreFirst(th, token, creatorID) ==
    /\ pc[th] = "idle"
    /\ Len(workers) + Cardinality(Starting) < MaxWorkers
    /\ IF ValidateCredential(token)
       THEN /\ pc' = [pc EXCEPT ![th] = "lock"]
            /\ call' = [call EXCEPT ![th] =
                  [token |-> token, creatorID |-> creatorID,
                   existed |-> HasRow(db, token)]]
            /\ reload' = reload
            /\ UNCHANGED <<bots, creator>>
            /\ last' = Step("AddBot.validate", token, creatorID, NoUpdate, "", <<>>)
       ELSE /\ UNCHANGED <<pc, call>>
            /\ reload' = Returned(th)
            /\ bots' = [bots EXCEPT ![token] = 1]
            /\ creator' = [creator EXCEPT ![token] = creatorID]
            /\ last' = Step("AddBot.validate", token, creatorID, NoUpdate, "err", <<>>)
    /\ UNCHANGED <<db, mu, workers, chat>>

\* AddBot, lines 33-39: entry and NewBotAPI.
AddBotValidate(th, token, creatorID) ==
    /\ pc[th] = "idle"
    /\ Len(workers) + Cardinality(Starting) < MaxWorkers
    /\ IF ValidateCredential(token)
       THEN /\ pc' = [pc EXCEPT ![th] = "lock"]
            /\ call' = [call EXCEPT ![th] =
                  [token |-> token, creatorID |-> creatorID,
                   existed |-> HasRow(db, token)]]
            /\ reload' = reload
            /\ last' = Step("AddBot.validate", token, creatorID, NoUpdate, "", <<>>)
       ELSE /\ UNCHANGED <<pc, call>>
            /\ reload' = Returned(th)
            /\ last' = Step("AddBot.validate", token, creatorID, NoUpdate, "err", <<>>)
    /\ UNCHANGED <<db, bots, creator, mu, workers, chat>>

\* AddBot, line 41: Lock finds rw.w taken by another writer; the caller is
\* queued on it.
AddBotLockQueue(th) ==
    /\ pc[th] = "lock"
    /\ WriterMutexHeld
    /\ pc' = [pc EXCEPT ![th] = "lockqueue"]
    /\ last' = Step("AddBot.queue", call[th].token, call[th].creatorID,
                    NoUpdate, "", <<>>)
    /\ UNCHANGED <<db, bots, creator, mu, workers, call, reload, chat>>

\* AddBot, line 41: Lock has rw.w and finds readers inside; the caller has
\* announced itself and waits for them.
AddBotLockWait(th) ==
    /\ pc[th] \in {"lock", "lockqueue"}
    /\ ~WriterMutexHeld
    /\ Readers # {}
    /\ pc' = [pc EXCEPT ![th] = "lockwait"]
    /\ last' = Step("AddBot.wait", call[th].token, call[th].creatorID,
                    NoUpdate, "", <<>>)
    /\ UNCHANGED <<db, bots, creator, mu, workers, call, reload, chat>>

\* AddBot, lines 41-44: Lock, the two map entries and Unlock.  The goroutine
\* of the bot is not started yet.
AddBotStore(th) ==
    /\ pc[th] \in {"lock", "lockqueue", "lockwait"}
    /\ CanLock(th)
    /\ bots' = [bots EXCEPT ![call[th].token] = 1]
    /\ creator' = [creator EXCEPT ![call[th].token] = call[th].creatorID]
    /\ workers' = ReleaseReaders(workers)
    /\ pc' = [pc EXCEPT ![th] = "start"]
    /\ last' = Step("AddBot.store", call[th].token, call[th].creatorID,
                    NoUpdate, "", <<>>)
    /\ UNCHANGED <<db, mu, call, reload, chat>>

\* startBot arming every user it finds in blocked_users when it starts.
NewAppeals_Blocked(rows, token) ==
    {u \in EndUsers : \E i \in 1..Len(SelectBlockedUsers(rows, token)) :
                         SelectBlockedUsers(rows, token)[i] = u}

\* startBot, line 355: the appeals map a goroutine starts with is empty,
\* whatever the table holds for its token.
NewAppeals(rows, token) == {}

\* AddBot, line 47: "go m.startBot(bot, creatorID)", whatever became
\* of the map entries since Unlock.
AddBotStart(th) ==
    /\ pc[th] = "start"
    /\ workers' = Append(workers,
          [token |-> call[th].token, creatorID |-> call[th].creatorID,
           appeals |-> NewAppeals(db, call[th].token), at |-> "idle", ev |-> NoUpdate,
           blockedUsers |-> <<>>, appealCounts |-> NoCounts])
    /\ pc' = [pc EXCEPT ![th] = "exists"]
    /\ last' = Step("AddBot.go", call[th].token, call[th].creatorID,
                    NoUpdate, "", <<>>)
    /\ UNCHANGED <<db, bots, creator, mu, call, reload, chat>>

\* AddBot, lines 51-61: SELECT EXISTS; the return of its error, and the
\* early return for a token that has its row.
AddBotExists(th, fails) ==
    /\ pc[th] = "exists"
    /\ IF fails \/ SelectExists(db, call[th].token)
       THEN /\ pc' = [pc EXCEPT ![th] = "idle"]
            /\ call' = [call EXCEPT ![th] = NoCall]
            /\ reload' = Returned(th)
            /\ last' = Step("AddBot.exists", call[th].token, call[th].creatorID,
                            NoUpdate, IF fails THEN "err" ELSE "ok", <<>>)
       ELSE /\ pc' = [pc EXCEPT ![th] = "insert"]
            /\ UNCHANGED <<call, reload>>
            /\ last' = Step("AddBot.exists", call[th].token, call[th].creatorID,
                            NoUpdate, "", <<>>)
    /\ UNCHANGED <<db, bots, creator, mu, workers, chat>>

\* AddBot, lines 64-71: INSERT and return; the statement is refused by the
\* PRIMARY KEY or fails for another reason (fails), and either error is
\* returned.
AddBotInsert(th, fails) ==
    LET r == InsertBot(db, call[th].token, call[th].creatorID) IN
    /\ pc[th] = "insert"
    /\ db' = IF fails THEN db ELSE r.rows
    /\ pc' = [pc EXCEPT ![th] = "idle"]
    /\ call' = [call EXCEPT ![th] = NoCall]
    /\ reload' = Returned(th)
    /\ last' = Step("AddBot.insert", call[th].token, call[th].creatorID,
                    NoUpdate, IF fails \/ r.err THEN "err" ELSE "ok", <<>>)
    /\ UNCHANGED <<bots, creator, mu, workers, chat>>

\* DeleteBot, line 542: Lock finds rw.w taken by another writer.
DeleteBotLockQueue(th, token) ==
    /\ pc[th] = "idle"
    /\ WriterMutexHeld
    /\ pc' = [pc EXCEPT ![th] = "dlockqueue"]
    /\ call' = [call EXCEPT ![th] =
          [token |-> token, creatorID |-> 0, existed |-> HasRow(db, token)]]
    /\ last' = Step("DeleteBot.queue", token, 0, NoUpdate, "", <<>>)
    /\ UNCHANGED <<db, bots, creator, mu, workers, reload, chat>>

\* DeleteBot, line 542: Lock has rw.w and waits for the readers inside.
DeleteBotLockWait(th, token) ==
    /\ \/ pc[th] = "idle"
       \/ pc[th] = "dlockqueue" /\ call[th].token = token
    /\ ~WriterMutexHeld
    /\ Readers # {}
    /\ pc' = [pc EXCEPT ![th] = "dlockwait"]
    /\ call' = [call EXCEPT ![th] =
          [token |-> token, creatorID |-> 0, existed |-> HasRow(db, token)]]
    /\ last' = Step("DeleteBot.wait", token, 0, NoUpdate, "", <<>>)
    /\ UNCHANGED <<db, bots, creator, mu, workers, reload, chat>>

\* DeleteBot, lines 542-547: Lock and the two map deletes.
DeleteBotLock(th, token) ==
    /\ \/ pc[th] = "idle"
       \/ pc[th] \in {"dlockqueue", "dlockwait"} /\ call[th].token = token
    /\ CanLock(th)
    /\ mu' = th
    /\ bots' = [bots EXCEPT ![token] = 0]
    /\ creator' = [creator EXCEPT ![token] = 0]
    /\ pc' = [pc EXCEPT ![th] = "dbdel"]
    /\ call' = [call EXCEPT ![th] =
          [token |-> token, creatorID |-> 0, existed |-> HasRow(db, token)]]
    /\ last' = Step("DeleteBot.lock", token, 0, NoUpdate, "", <<>>)
    /\ UNCHANGED <<db, workers, reload, chat>>

\* DeleteBot, lines 549-555: DELETE, whose error is logged and not returned,
\* and the deferred Unlock.  DeleteBot returns no value: ret is "ok" either
\* way, as main() answers "Bot deleted successfully!" (line 634).
DeleteBotExec(th, fails) ==
    /\ pc[th] = "dbdel"
    /\ db' = IF fails THEN db ELSE DeleteRows(db, call[th].token)
    /\ mu' = ""
    /\ workers' = ReleaseReaders(workers)
    /\ pc' = [pc EXCEPT ![th] = "idle"]
    /\ call' = [call EXCEPT ![th] = NoCall]
    /\ last' = [Step("DeleteBot.exec", call[th].token, 0, NoUpdate, "ok", <<>>)
                  EXCEPT !.lowered = Lowered(db, db')]
    /\ UNCHANGED <<bots, creator, reload, chat>>

\* ------------------------------------------------------------------ main()

\* The manager bot's loop, lines 619-637: one command at a time, after the
\* load loop has ended.
Newbot(token, creatorID) ==
    /\ reload = <<>>
    /\ AddBotValidate(MainThread, token, creatorID)

Deletebot(token) ==
    /\ reload = <<>>
    /\ DeleteBotLock(MainThread, token)

\* The load loop, lines 599-610: AddBot for the next row of the query.
LoadBot ==
    /\ reload # <<>>
    /\ AddBotValidate(MainThread, Head(reload).token, Head(reload).creator_id)

\* The users whose appeal text a startBot awaits.
Awaited ==
    UNION {{<<workers[w].token, "armed", u>> : u \in workers[w].appeals} :
              w \in 1..Len(workers)}

\* The process ends at any point and main() starts again: memory is new, the
\* file data/bots.db is what it was, and the load query is made.
Restart ==
    /\ db' = CreateTableIfNotExists(db)
    /\ bots' = [t \in Tokens |-> 0]
    /\ creator' = [t \in Tokens |-> 0]
    /\ mu' = ""
    /\ workers' = <<>>
    /\ pc' = [th \in Threads |-> "idle"]
    /\ call' = [th \in Threads |-> NoCall]
    /\ reload' = [i \in 1..Len(db') |->
                    [token |-> db'[i].token, creator_id |-> db'[i].creator_id]]
    /\ last' = Step("restart", "", 0, NoUpdate, "", <<>>)
    /\ chat' = chat \cup Awaited


\* ---------------------------------------------------------------- routing

\* handleReplyMessage answering the sender of whatever message was replied to.
handleReplyMessage_AnyReply(msg) ==
    IF msg.reply.kind # "none"
    THEN <<Send(msg.reply.id, "reply", 0, msg.reply.id, msg.text)>>
    ELSE <<>>

\* handleReplyMessage: a send only when the replied-to message has ForwardFrom.
handleReplyMessage(msg) ==
    IF msg.reply.kind = "fwd"
    THEN <<Send(msg.reply.id, "reply", 0, msg.reply.id, msg.text)>>
    ELSE <<>>

\* -------------------------------------------------- startBot: the loop body
\* at is "idle" between two updates and else names the call the goroutine
\* makes next.  ret of a step is what blockUser, unblockUser or
\* incrementAppealCount returned in it: "ok", "err", or "" when none returned.

Worker(w) == workers[w]

Idle(w) == Worker(w).at = "idle"

\* Positions inside lines 361-388, the handling of an appeal text.
AppealPositions ==
    {"inc.select", "inc.update", "count.select", "block.select", "block.update", "capped.send"}

\* The branch of the loop body a goroutine at position at with update ev is in.
OpAt(at, ev) ==
    IF at \in AppealPositions THEN "appealText"
    ELSE IF ev.type = "callback" THEN "callback"
    ELSE IF ev.cmd # "" THEN "command"
    ELSE "userMessage"

\* The goroutine moves on to position at with the locals given; "idle" ends
\* the handling of the update.
At(w, at, ev, blockedUsers, appealCounts) ==
    [workers EXCEPT ![w].at = at,
                    ![w].ev = IF at = "idle" THEN NoUpdate ELSE ev,
                    ![w].blockedUsers = blockedUsers,
                    ![w].appealCounts = appealCounts]

\* What the history records of the sends that reached a chat: the appeal
\* button of a block notice and the ban / unban buttons of a /start notice.
\* Buttons nobody of the model presses are left out.
Seen(token, sends) ==
    LET Of(kind) == {sends[i].about : i \in {j \in 1..Len(sends) : sends[j].kind = kind}}
    IN {<<token, "appeal", u>> : u \in Of("blocked") \cap Pressers}
       \cup {<<token, "menu", u>> : u \in Of("menu") \cap Pressers}

\* The history of a step of startBot w.
Report(w, op, ev, ret, sends) ==
    /\ last' = [Step(op, Worker(w).token, Worker(w).creatorID, ev, ret, sends)
                  EXCEPT !.w = w]
    /\ chat' = chat \cup Seen(Worker(w).token, sends)

\* The history of a step of startBot w that has made an UPDATE.
ReportWrite(w, op, ev, ret, sends) ==
    /\ last' = [Step(op, Worker(w).token, Worker(w).creatorID, ev, ret, sends)
                  EXCEPT !.w = w, !.lowered = Lowered(db, db')]
    /\ chat' = chat \cup Seen(Worker(w).token, sends)

\* Where a handler goes when blockUser or unblockUser returns an error: the
\* command answers the creator (lines 321, 340), the button handler goes on
\* to the next update (lines 453, 471).
AfterError(ev) == IF ev.type = "message" THEN "fail.send" ELSE "idle"

\* The highest count of userID the increments in progress can write: the
\* highest value in appeal_counts or in a map a goroutine of the token has
\* read, plus one for every appeal text of userID whose UPDATE is to come.
CountInReach(token, userID) ==
    LET ws == {v \in 1..Len(workers) : workers[v].token = token}
        held == {SelectAppealCounts(db, token)[userID]}
                \cup {workers[v].appealCounts[userID] : v \in ws}
        top == CHOOSE n \in held : \A k \in held : k <= n
        coming == {v \in ws : /\ workers[v].at \in {"inc.select", "inc.update"}
                              /\ workers[v].ev.from = userID}
    IN top + Cardinality(coming)

\* Lines 361-368: the message of a sender whose appeals flag is set is sent to
\* the creator and the flag is cleared.
RecvAppealText(w, msg) ==
    /\ Idle(w)
    /\ msg.from \in Worker(w).appeals
    /\ CountInReach(Worker(w).token, msg.from) < MaxCount
    /\ workers' = [At(w, "inc.select", msg, <<>>, NoCounts)
                     EXCEPT ![w].appeals = @ \ {msg.from}]
    /\ Report(w, "appealText", msg, "",
              <<Send(Worker(w).creatorID, "appeal", 0, msg.from, msg.text)>>)
    /\ UNCHANGED <<db, bots, creator, mu, pc, call, reload>>

\* Line 371, incrementAppealCount lines 98-103: the SELECT of appeal_counts;
\* its error is returned, and the caller logs it and goes on.
IncrementSelect(w, fails) ==
    /\ Worker(w).at = "inc.select"
    /\ workers' = IF fails
                  THEN At(w, "count.select", Worker(w).ev, <<>>, NoCounts)
                  ELSE At(w, "inc.update", Worker(w).ev, <<>>,
                          SelectAppealCounts(db, Worker(w).token))
    /\ Report(w, "appealText", Worker(w).ev, IF fails THEN "err" ELSE "", <<>>)
    /\ UNCHANGED <<db, bots, creator, mu, pc, call, reload>>

\* incrementAppealCount, lines 105-128: the UPDATE of appeal_counts; the
\* caller logs an error and goes on.
IncrementUpdate(w, fails) ==
    /\ Worker(w).at = "inc.update"
    /\ db' = IF fails THEN db
             ELSE UpdateAppealCounts(db, Worker(w).token,
                     incrementedCounts(Worker(w).appealCounts, Worker(w).ev.from))
    /\ workers' = At(w, "count.select", Worker(w).ev, <<>>, NoCounts)
    /\ ReportWrite(w, "appealText", Worker(w).ev, IF fails THEN "err" ELSE "ok", <<>>)
    /\ UNCHANGED <<bots, creator, mu, pc, call, reload>>

\* Lines 376-377: getAppealCount and the test against the cap.
AppealCountSelect(w, fails) ==
    LET appealCount == getAppealCount(db, Worker(w).token, Worker(w).ev.from, fails) IN
    /\ Worker(w).at = "count.select"
    /\ workers' = At(w, IF capped(appealCount) THEN "block.select" ELSE "idle",
                     Worker(w).ev, <<>>, NoCounts)
    /\ Report(w, "appealText", Worker(w).ev, "", <<>>)
    /\ UNCHANGED <<db, bots, creator, mu, pc, call, reload>>

\* Line 378, blockUser lines 155-169: the SELECT of blocked_users at the cap.
AppealBlockSelect(w, fails) ==
    LET blockedUsers == SelectBlockedUsers(db, Worker(w).token)
        returns == fails \/ InList(blockedUsers, Worker(w).ev.from)
    IN
    /\ Worker(w).at = "block.select"
    /\ workers' = IF returns
                  THEN At(w, "capped.send", Worker(w).ev, <<>>, NoCounts)
                  ELSE At(w, "block.update", Worker(w).ev, blockedUsers, NoCounts)
    /\ Report(w, "appealText", Worker(w).ev,
              IF fails THEN "err" ELSE IF returns THEN "ok" ELSE "", <<>>)
    /\ UNCHANGED <<db, bots, creator, mu, pc, call, reload>>

\* blockUser, lines 171-186: the UPDATE of blocked_users, for /ban, for the
\* ban button and for the appeal that reached the cap.
BlockUserUpdate(w, fails) ==
    LET ev == Worker(w).ev
        appeal == Worker(w).at = "block.update"
        userID == IF appeal THEN ev.from ELSE ev.arg.id
    IN
    /\ Worker(w).at \in {"ban.update", "block.update"}
    /\ db' = IF fails THEN db
             ELSE UpdateBlockedUsers(db, Worker(w).token,
                     newBlockedUsers(Worker(w).blockedUsers, userID))
    /\ workers' = At(w, IF appeal THEN "capped.send"
                        ELSE IF fails THEN AfterError(ev) ELSE "ban.send",
                     ev, <<>>, NoCounts)
    /\ ReportWrite(w, OpAt(Worker(w).at, ev), ev, IF fails THEN "err" ELSE "ok", <<>>)
    /\ UNCHANGED <<bots, creator, mu, pc, call, reload>>

\* Lines 381-384: the notice that the appeals are used up, after blockUser
\* whatever it returned.
AppealCappedSend(w) ==
    /\ Worker(w).at = "capped.send"
    /\ workers' = At(w, "idle", NoUpdate, <<>>, NoCounts)
    /\ Report(w, "appealText", Worker(w).ev, "",
              <<Send(Worker(w).ev.from, "capped", 0, Worker(w).ev.from, "")>>)
    /\ UNCHANGED <<db, bots, creator, mu, pc, call, reload>>

\* blockUser as a handler enters it, lines 155-169: the SELECT, and the return
\* for a user who is listed.
BlockUserSelect(w, ev, fails) ==
    LET blockedUsers == SelectBlockedUsers(db, Worker(w).token) IN
    IF fails
    THEN [at |-> AfterError(ev), blockedUsers |-> <<>>, ret |-> "err"]
    ELSE IF InList(blockedUsers, ev.arg.id)
    THEN [at |-> "ban.send", blockedUsers |-> <<>>, ret |-> "ok"]
    ELSE [at |-> "ban.update", blockedUsers |-> blockedUsers, ret |-> ""]

\* unblockUser as a handler enters it, lines 189-199: the SELECT, and the
\* return when the list is empty.
UnblockUserSelect(w, ev, fails) ==
    LET blockedUsers == SelectBlockedUsers(db, Worker(w).token) IN
    IF fails
    THEN [at |-> AfterError(ev), blockedUsers |-> <<>>, ret |-> "err"]
    ELSE IF blockedUsers = <<>>
    THEN [at |-> "unban.send", blockedUsers |-> <<>>, ret |-> "ok"]
    ELSE [at |-> "unban.update", blockedUsers |-> blockedUsers, ret |-> ""]

\* handleBotCommands up to its first store call or its only send: /start from
\* anyone, then the switch on the command.
handleBotCommands(w, msg, fails) ==
    LET creatorID == Worker(w).creatorID
        NoStore(sends) ==
            [at |-> "idle", blockedUsers |-> <<>>, ret |-> "", sends |-> sends]
        Store(r) ==
            [at |-> r.at, blockedUsers |-> r.blockedUsers, ret |-> r.ret,
             sends |-> <<>>]
    IN CASE msg.cmd = "start" ->
              NoStore(<<Send(creatorID, "menu", 0, msg.from, "")>>)
         [] msg.cmd = "getbans" ->
              IF fails
              THEN Store([at |-> "fail.send", blockedUsers |-> <<>>, ret |-> ""])
              ELSE Store([at |-> "getbans.send",
                          blockedUsers |-> SelectBlockedUsers(db, Worker(w).token),
                          ret |-> ""])
         [] msg.cmd \in {"ban", "unban"} /\ msg.arg.kind = "empty" ->
              NoStore(<<Send(creatorID, "usage", 0, 0, "")>>)
         [] msg.cmd \in {"ban", "unban"} /\ msg.arg.kind = "notint" ->
              NoStore(<<Send(creatorID, "invalid", 0, 0, "")>>)
         [] msg.cmd = "ban" /\ msg.arg.kind = "id" ->
              Store(BlockUserSelect(w, msg, fails))
         [] msg.cmd = "unban" /\ msg.arg.kind = "id" ->
              Store(UnblockUserSelect(w, msg, fails))
         [] OTHER -> NoStore(<<>>)

\* Lines 390-396: a command, whoever sent it.
RecvCommand(w, msg, fails) ==
    LET o == handleBotCommands(w, msg, fails) IN
    /\ Idle(w)
    /\ msg.from \notin Worker(w).appeals
    /\ msg.cmd # ""
    /\ workers' = At(w, o.at, msg, o.blockedUsers, NoCounts)
    /\ Report(w, "command", msg, o.ret, o.sends)
    /\ UNCHANGED <<db, bots, creator, mu, pc, call, reload>>

\* Lines 405-409 and 441-454: the ban button acknowledged, and blockUser up to
\* its SELECT.
CallbackBan(w, cb, fails) ==
    LET o == BlockUserSelect(w, cb, fails) IN
    /\ Idle(w)
    /\ cb.cmd = "ban_"
    /\ workers' = At(w, o.at, cb, o.blockedUsers, NoCounts)
    /\ Report(w, "callback", cb, o.ret, <<>>)
    /\ UNCHANGED <<db, bots, creator, mu, pc, call, reload>>

\* Lines 405-409 and 460-472: the unban button acknowledged, and unblockUser
\* up to its SELECT.
CallbackUnban(w, cb, fails) ==
    LET o == UnblockUserSelect(w, cb, fails) IN
    /\ Idle(w)
    /\ cb.cmd = "unban_"
    /\ workers' = At(w, o.at, cb, o.blockedUsers, NoCounts)
    /\ Report(w, "callback", cb, o.ret, <<>>)
    /\ UNCHANGED <<db, bots, creator, mu, pc, call, reload>>

\* unblockUser, lines 201-219: the UPDATE of blocked_users.
UnblockUserUpdate(w, fails) ==
    LET ev == Worker(w).ev IN
    /\ Worker(w).at = "unban.update"
    /\ db' = IF fails THEN db
             ELSE UpdateBlockedUsers(db, Worker(w).token,
                     RemoveId(Worker(w).blockedUsers, ev.arg.id))
    /\ workers' = IF fails THEN At(w, AfterError(ev), ev, <<>>, NoCounts)
                  ELSE At(w, "unban.select", ev, Worker(w).blockedUsers, NoCounts)
    /\ ReportWrite(w, OpAt(Worker(w).at, ev), ev, IF fails THEN "err" ELSE "", <<>>)
    /\ UNCHANGED <<bots, creator, mu, pc, call, reload>>

\* unblockUser, lines 221-234: the SELECT of appeal_counts.
UnblockUserCounts(w, fails) ==
    LET ev == Worker(w).ev IN
    /\ Worker(w).at = "unban.select"
    /\ workers' = IF fails THEN At(w, AfterError(ev), ev, <<>>, NoCounts)
                  ELSE At(w, "unban.reset", ev, Worker(w).blockedUsers,
                          SelectAppealCounts(db, Worker(w).token))
    /\ Report(w, OpAt(Worker(w).at, ev), ev, IF fails THEN "err" ELSE "", <<>>)
    /\ UNCHANGED <<db, bots, creator, mu, pc, call, reload>>

\* unblockUser, lines 236-251: the UPDATE of appeal_counts.
UnblockUserReset(w, fails) ==
    LET ev == Worker(w).ev IN
    /\ Worker(w).at = "unban.reset"
    /\ db' = IF fails THEN db
             ELSE UpdateAppealCounts(db, Worker(w).token,
                     resetCounts(Worker(w).appealCounts, ev.arg.id))
    /\ workers' = At(w, IF fails THEN AfterError(ev) ELSE "unban.send",
                     ev, <<>>, NoCounts)
    /\ ReportWrite(w, OpAt(Worker(w).at, ev), ev, IF fails THEN "err" ELSE "ok", <<>>)
    /\ UNCHANGED <<bots, creator, mu, pc, call, reload>>

\* The answer of a command or a button handler to the creator after its
\* store calls: lines 296-304, 321-324, 340-343, 456-459, 473-476.
CommandSend(w) ==
    LET ev == Worker(w).ev
        creatorID == Worker(w).creatorID
        send == CASE Worker(w).at = "ban.send" ->
                       Send(creatorID, "banned", 0, ev.arg.id, "")
                  [] Worker(w).at = "unban.send" ->
                       Send(creatorID, "unbanned", 0, ev.arg.id, "")
                  [] Worker(w).at = "fail.send" ->
                       Send(creatorID, "failed", 0, ev.arg.id, "")
                  [] Worker(w).at = "getbans.send" ->
                       IF Worker(w).blockedUsers = <<>>
                       THEN Send(creatorID, "nobans", 0, 0, "")
                       ELSE Send(creatorID, "bans", 0, 0, "")
    IN
    /\ Worker(w).at \in {"ban.send", "unban.send", "fail.send", "getbans.send"}
    /\ workers' = At(w, "idle", NoUpdate, <<>>, NoCounts)
    /\ Report(w, OpAt(Worker(w).at, ev), ev, "", <<send>>)
    /\ UNCHANGED <<db, bots, creator, mu, pc, call, reload>>

\* Lines 398-399: any other message of the creator.
RecvCreatorMessage(w, msg) ==
    /\ Idle(w)
    /\ msg.from \notin Worker(w).appeals
    /\ msg.cmd = ""
    /\ msg.from = Worker(w).creatorID
    /\ Report(w, "creatorMessage", msg, "", handleReplyMessage(msg))
    /\ UNCHANGED <<db, bots, creator, mu, workers, pc, call, reload>>

\* Lines 405-422: the appeal button acknowledged, getAppealCount and the test
\* against the cap.
CallbackAppeal(w, cb, fails) ==
    LET appealCount == getAppealCount(db, Worker(w).token, cb.arg.id, fails) IN
    /\ Idle(w)
    /\ cb.cmd = "appeal_"
    /\ workers' = At(w, IF capped(appealCount) THEN "nomore.send" ELSE "prompt.send",
                     cb, <<>>, NoCounts)
    /\ Report(w, "callback", cb, "", <<>>)
    /\ UNCHANGED <<db, bots, creator, mu, pc, call, reload>>

\* Lines 423-438: the notice that the appeals are used up, or the prompt and,
\* when it was sent, the appeals flag; a user armed again is no longer one
\* whose appeal was left unanswered by the end of an earlier process.
CallbackAppealSend(w) ==
    LET ev == Worker(w).ev
        userID == ev.arg.id
        prompt == Worker(w).at = "prompt.send"
    IN
    /\ Worker(w).at \in {"nomore.send", "prompt.send"}
    /\ workers' = [At(w, "idle", NoUpdate, <<>>, NoCounts) EXCEPT
                     ![w].appeals = IF prompt /\ ev.sendok
                                    THEN @ \cup {userID} ELSE @]
    /\ last' = [Step("callback", Worker(w).token, Worker(w).creatorID, ev, "",
                       IF prompt THEN <<Send(userID, "prompt", 0, userID, "")>>
                       ELSE <<Send(userID, "capped", 0, userID, "")>>)
                  EXCEPT !.w = w]
    /\ chat' = IF prompt /\ ev.sendok
               THEN chat \ {<<Worker(w).token, "armed", userID>>}
               ELSE chat
    /\ UNCHANGED <<db, bots, creator, mu, pc, call, reload>>

\* Lines 405-409: bot.Request(callback) returns an error; the loop goes on to
\* the next update.
CallbackAckFails(w, cb) ==
    /\ Idle(w)
    /\ cb.type = "callback"
    /\ Report(w, "callback", cb, "noack", <<>>)
    /\ UNCHANGED <<db, bots, creator, mu, workers, pc, call, reload>>

\* A payload that is not understood answered with a notice to the creator.
CallbackIgnored_Replies(w, cb) ==
    /\ Idle(w)
    /\ cb.cmd \notin {"appeal_", "ban_", "unban_"} \/ cb.arg.kind # "id"
    /\ Report(w, "callback", cb, "",
              <<Send(Worker(w).creatorID, "invalid", 0, 0, "")>>)
    /\ UNCHANGED <<db, bots, creator, mu, workers, pc, call, reload>>

\* Lines 411-477 with Data that has none of the three prefixes, or one of
\* them and a rest ParseInt rejects: logged, and on to the next update.
CallbackIgnored(w, cb) ==
    /\ Idle(w)
    /\ cb.cmd \notin {"appeal_", "ban_", "unban_"} \/ cb.arg.kind # "id"
    /\ Report(w, "callback", cb, "", <<>>)
    /\ UNCHANGED <<db, bots, creator, mu, workers, pc, call, reload>>

\* handleIncomingMessage, lines 482-520.  The deferred RUnlock runs at the
\* return, so the read lock is held over isUserBlocked, getAppealCount and
\* Send; it keeps AddBot and DeleteBot out of their locked sections and no
\* goroutine from the table.

\* Lines 400-401, 483: any other message; RLock is called and returns at once,
\* or the goroutine blocks until a writer's Unlock.
IncomingRLock(w, msg) ==
    /\ Idle(w)
    /\ msg.from \notin Worker(w).appeals
    /\ msg.cmd = ""
    /\ msg.from # Worker(w).creatorID
    /\ workers' = At(w, IF CanRLock THEN "read" ELSE "rwait", msg, <<>>, NoCounts)
    /\ Report(w, "userMessage", msg, "", <<>>)
    /\ UNCHANGED <<db, bots, creator, mu, pc, call, reload>>

\* Line 488: isUserBlocked.
IncomingBlocked(w, fails) ==
    LET ev == Worker(w).ev IN
    /\ Worker(w).at = "read"
    /\ workers' = At(w, IF isUserBlocked(db, Worker(w).token, ev.from, fails)
                        THEN "count" ELSE "forward.send",
                     ev, <<>>, NoCounts)
    /\ Report(w, "userMessage", ev, "", <<>>)
    /\ UNCHANGED <<db, bots, creator, mu, pc, call, reload>>

\* Line 491: getAppealCount and the test against the cap.
IncomingCount(w, fails) ==
    LET ev == Worker(w).ev
        appealCount == getAppealCount(db, Worker(w).token, ev.from, fails)
    IN
    /\ Worker(w).at = "count"
    /\ workers' = At(w, IF capped(appealCount) THEN "permanent.send"
                        ELSE "blocked.send",
                     ev, <<>>, NoCounts)
    /\ Report(w, "userMessage", ev, "", <<>>)
    /\ UNCHANGED <<db, bots, creator, mu, pc, call, reload>>

\* Lines 492-519: one of the two notices or NewForward, then RUnlock.
IncomingSend(w) ==
    LET ev == Worker(w).ev
        userID == ev.from
        send == CASE Worker(w).at = "permanent.send" ->
                       Send(userID, "permanent", 0, userID, "")
                  [] Worker(w).at = "blocked.send" ->
                       Send(userID, "blocked", userID, userID, "")
                  [] Worker(w).at = "forward.send" ->
                       Send(Worker(w).creatorID, "forward", 0, userID, ev.text)
    IN
    /\ Worker(w).at \in {"permanent.send", "blocked.send", "forward.send"}
    /\ workers' = At(w, "idle", NoUpdate, <<>>, NoCounts)
    /\ Report(w, "userMessage", ev, "", <<send>>)
    /\ UNCHANGED <<db, bots, creator, mu, pc, call, reload>>

\* ------------------------------------------------------------ environment
\* The updates Telegram can deliver to the bot of startBot w.

Senders(w) == Pressers \cup {Worker(w).creatorID}

Args == {ArgEmpty, ArgNotInt} \cup {ArgId(u) : u \in EndUsers}

\* What the creator can reply to: nothing, a message that is no forward, or a
\* message forwarded from an end user (the creator's chat keeps the copies the
\* bot forwarded, and the creator can forward any message into it).
ReplyTargets == {NoReply, ReplyPlain} \cup {ReplyFwd(u) : u \in EndUsers}

UserMessages == {Message(u, "", ArgEmpty, NoReply, "hello") : u \in EndUsers}

CreatorMessages(w) ==
    {Message(Worker(w).creatorID, "", ArgEmpty, r, "hi") : r \in ReplyTargets}

\* Commands: /start, /getbans, /ban and /unban with each argument, and one
\* command the switch does not know, which the creator may send as a reply.
Commands(w) ==
    {Message(u, c, ArgEmpty, NoReply, c) : u \in Senders(w), c \in {"start", "getbans"}}
    \cup {Message(u, c, a, NoReply, c) : u \in Senders(w), c \in {"ban", "unban"}, a \in Args}
    \cup {Message(u, "other", ArgEmpty, NoReply, "other") : u \in Pressers}
    \cup {Message(Worker(w).creatorID, "other", ArgEmpty, r, "other") :
             r \in ReplyTargets \ {ReplyPlain}}

Messages(w) == UserMessages \cup CreatorMessages(w) \cup Commands(w)

\* A button can be pressed once the bot has sent it; it stays in the chat.
Callbacks(w) ==
    {Callback("appeal_", u, ok) :
        u \in {x \in Pressers : <<Worker(w).token, "appeal", x>> \in chat},
        ok \in BOOLEAN}
    \cup {Callback(p, u, TRUE) :
        p \in {"ban_", "unban_"},
        u \in {x \in Pressers : <<Worker(w).token, "menu", x>> \in chat}}

\* Callback data no button of the bot carries: a prefix with a rest that is
\* no integer, and data with another prefix.
OtherCallbacks ==
    {[Callback(p, 0, TRUE) EXCEPT !.arg = a] :
        p \in {"appeal_", "ban_", "unban_"}, a \in {ArgEmpty, ArgNotInt}}
    \cup {Callback("other", u, TRUE) : u \in Pressers}


\* ----------------------------------------------------------- specifications

MainTokens == {"AAA", "bad"}

WorkerIds == 1..Len(workers)

\* The startBot goroutines that poll for a token.
WorkersOf(token) == {w \in 1..Len(workers) : workers[w].token = token}

\* Store calls that do not fail, and store calls that may.
NoFault == {FALSE}

AnyFault == BOOLEAN

\* The steps of startBot w after the first one of a handler.
Continue(w, F) ==
    \/ \E fails \in F : IncrementSelect(w, fails)
    \/ \E fails \in F : IncrementUpdate(w, fails)
    \/ \E fails \in F : AppealCountSelect(w, fails)
    \/ \E fails \in F : AppealBlockSelect(w, fails)
    \/ \E fails \in F : BlockUserUpdate(w, fails)
    \/ AppealCappedSend(w)
    \/ \E fails \in F : UnblockUserUpdate(w, fails)
    \/ \E fails \in F : UnblockUserCounts(w, fails)
    \/ \E fails \in F : UnblockUserReset(w, fails)
    \/ CommandSend(w)
    \/ CallbackAppealSend(w)
    \/ \E fails \in F : IncomingBlocked(w, fails)
    \/ \E fails \in F : IncomingCount(w, fails)
    \/ IncomingSend(w)

\* startBot w takes the next update from its channel.
Receive(w, F) ==
    \/ \E msg \in Messages(w) : RecvAppealText(w, msg)
    \/ \E msg \in Commands(w), fails \in F : RecvCommand(w, msg, fails)
    \/ \E msg \in CreatorMessages(w) : RecvCreatorMessage(w, msg)
    \/ \E msg \in UserMessages : IncomingRLock(w, msg)
    \/ \E cb \in Callbacks(w), fails \in F : CallbackAppeal(w, cb, fails)
    \/ \E cb \in Callbacks(w), fails \in F : CallbackBan(w, cb, fails)
    \/ \E cb \in Callbacks(w), fails \in F : CallbackUnban(w, cb, fails)

\* The updates of a ban and its appeals: the creator bans the two end users
\* and unbans end user 42 by command, and end user 42 writes, presses the
\* appeal button and sends the appeal text.
BanCommands(w) ==
    {Message(Worker(w).creatorID, "ban", ArgId(u), NoReply, "ban") : u \in EndUsers}
    \cup {Message(Worker(w).creatorID, "unban", ArgId(u), NoReply, "unban") :
             u \in Pressers}

PresserMessages == {Message(u, "", ArgEmpty, NoReply, "hello") : u \in Pressers}

AppealCallbacks(w) == {cb \in Callbacks(w) : cb.cmd = "appeal_" /\ cb.sendok}

\* The program as main() runs it: the manager bot's commands handled one at a
\* time, /newbot also for a token that is running, so that up to MaxWorkers
\* startBot goroutines poll for the one token and Telegram hands each update
\* to one of them; every startBot handling its updates call by call;
\* /deletebot; and the end of the process at any point with the new start
\* that follows.  The updates are those of a ban and its appeals.  Store
\* calls do not fail.
Next ==
    \/ \E creatorID \in MainCreators : Newbot("AAA", creatorID)
    \/ Deletebot("AAA")
    \/ LoadBot
    \/ AddBotStore(MainThread)
    \/ AddBotStart(MainThread)
    \/ AddBotExists(MainThread, FALSE)
    \/ AddBotInsert(MainThread, FALSE)
    \/ DeleteBotExec(MainThread, FALSE)
    \/ Restart
    \/ \E w \in WorkerIds :
          \/ \E msg \in PresserMessages : RecvAppealText(w, msg)
          \/ \E msg \in BanCommands(w) : RecvCommand(w, msg, FALSE)
          \/ \E msg \in PresserMessages : IncomingRLock(w, msg)
          \/ \E cb \in AppealCallbacks(w) : CallbackAppeal(w, cb, FALSE)
          \/ Continue(w, NoFault)

Spec == Init /\ [][Next]_vars

\* The program with /newbot sent for a token only while no startBot polls for
\* it, so that one startBot serves a bot: one bot credential and one that
\* getMe rejects, every update a client can send, /deletebot, and the end of
\* the process at any point with the new start that follows.
OneNext ==
    \/ \E token \in MainTokens, creatorID \in MainCreators :
          WorkersOf(token) = {} /\ Newbot(token, creatorID)
    \/ \E token \in MainTokens : Deletebot(token)
    \/ LoadBot
    \/ AddBotStore(MainThread)
    \/ AddBotStart(MainThread)
    \/ AddBotExists(MainThread, FALSE)
    \/ AddBotInsert(MainThread, FALSE)
    \/ DeleteBotExec(MainThread, FALSE)
    \/ Restart
    \/ \E w \in WorkerIds : Receive(w, NoFault) \/ Continue(w, NoFault)

SpecOne == Init /\ [][OneNext]_vars

\* The BotManager with two threads calling AddBot and DeleteBot at once, on
\* two credentials and from two chats; no update is delivered.
RegNext ==
    \E th \in Threads :
        \/ \E token \in ValidTokens, creatorID \in Creators :
              AddBotValidate(th, token, creatorID)
        \/ AddBotStore(th)
        \/ AddBotStart(th)
        \/ AddBotExists(th, FALSE)
        \/ AddBotInsert(th, FALSE)
        \/ \E token \in ValidTokens : DeleteBotLock(th, token)
        \/ DeleteBotExec(th, FALSE)

SpecReg == Init /\ [][RegNext]_vars

\* The goroutines of the program with their positions at the mutex: main()
\* and a second caller register and delete the bots of two credentials, and
\* every startBot handles plain messages of the end users through
\* handleIncomingMessage.  No user is blocked, so that the handler goes from
\* isUserBlocked to NewForward.
ConcNext ==
    \/ \E th \in Threads :
          \/ \E token \in ValidTokens, creatorID \in MainCreators :
                AddBotValidate(th, token, creatorID)
          \/ AddBotLockQueue(th)
          \/ AddBotLockWait(th)
          \/ AddBotStore(th)
          \/ AddBotStart(th)
          \/ AddBotExists(th, FALSE)
          \/ AddBotInsert(th, FALSE)
          \/ \E token \in ValidTokens : DeleteBotLockQueue(th, token)
          \/ \E token \in ValidTokens : DeleteBotLockWait(th, token)
          \/ \E token \in ValidTokens : DeleteBotLock(th, token)
          \/ DeleteBotExec(th, FALSE)
    \/ \E w \in WorkerIds :
          \/ \E msg \in UserMessages : IncomingRLock(w, msg)
          \/ IncomingBlocked(w, FALSE)
          \/ IncomingSend(w)

SpecConc == Init /\ [][ConcNext]_vars

\* One bot registered once and deleted, with store calls that fail: every
\* store call of AddBot, of DeleteBot and of every handler returns its result
\* or an error.
FaultNext ==
    \/ Len(workers) = 0 /\ \E creatorID \in MainCreators : Newbot("AAA", creatorID)
    \/ Deletebot("AAA")
    \/ AddBotStore(MainThread)
    \/ AddBotStart(MainThread)
    \/ \E fails \in AnyFault : AddBotExists(MainThread, fails)
    \/ \E fails \in AnyFault : AddBotInsert(MainThread, fails)
    \/ \E fails \in AnyFault : DeleteBotExec(MainThread, fails)
    \/ \E w \in WorkerIds : Receive(w, AnyFault) \/ Continue(w, AnyFault)

SpecFault == Init /\ [][FaultNext]_vars

\* One bot registered once, with every callback query a client can send: the
\* buttons of the bot, other data, and queries whose acknowledgement fails.
CallbackNext ==
    \/ Len(workers) = 0 /\ \E creatorID \in MainCreators : Newbot("AAA", creatorID)
    \/ AddBotStore(MainThread)
    \/ AddBotStart(MainThread)
    \/ AddBotExists(MainThread, FALSE)
    \/ AddBotInsert(MainThread, FALSE)
    \/ \E w \in WorkerIds :
          \/ \E cb \in Callbacks(w) \cup OtherCallbacks : CallbackAckFails(w, cb)
          \/ \E cb \in OtherCallbacks : CallbackIgnored(w, cb)
          \/ Receive(w, NoFault)
          \/ Continue(w, NoFault)

SpecCallback == Init /\ [][CallbackNext]_vars

\* ------------------------------------------------------------- observations
\* What the claims read off a state, stated on the table itself.

Records(rows, token) == {rows[i] : i \in {j \in 1..Len(rows) : rows[j].token = token}}

\* IsBlocked(T,U): U is in the persisted blocked set of T.
IsBlockedIn(rows, token, u) ==
    \E r \in Records(rows, token) :
        \E i \in 1..Len(r.blocked_users) : r.blocked_users[i] = u

\* GetAppealCount(T,U): the persisted count, 0 without a record.
AppealCountIn(rows, token, u) ==
    IF Records(rows, token) = {} THEN 0
    ELSE (CHOOSE r \in Records(rows, token) : TRUE).appeal_counts[u]

SendsTo(l, u) == {i \in 1..Len(l.sends) : l.sends[i].to = u}

\* The step l belongs to a ban / an unban of u at bot token, by command or by
\* button; its ret is what blockUser / unblockUser returned in it.
IsBan(l, token, u) ==
    /\ l.tok = token
    /\ l.ev.arg = ArgId(u)
    /\ \/ l.op = "command" /\ l.ev.cmd = "ban"
       \/ l.op = "callback" /\ l.ev.cmd = "ban_"

IsUnban(l, token, u) ==
    /\ l.tok = token
    /\ l.ev.arg = ArgId(u)
    /\ \/ l.op = "command" /\ l.ev.cmd = "unban"
       \/ l.op = "callback" /\ l.ev.cmd = "unban_"

IsAppealTrigger(l, token, u) ==
    l.tok = token /\ l.op = "callback" /\ l.ev.cmd = "appeal_" /\ l.ev.arg = ArgId(u)

\* The step just taken is a step of startBot w.
StepOf(w) == w \in 1..Len(workers) /\ last'.w = w

\* The step just taken is the last one of a handler of a startBot.
Finishes == \E w \in 1..Len(workers) : StepOf(w) /\ workers'[w].at = "idle"

\* No startBot that runs on has another appeals map after the step.
SameAppeals ==
    \A w \in 1..Len(workers') :
        w <= Len(workers) => workers'[w].appeals = workers[w].appeals

\* Some startBot that runs on has a flag after the step that it had not.
FlagSet ==
    \E w \in 1..Len(workers') :
        w <= Len(workers) /\ ~(workers'[w].appeals \subseteq workers[w].appeals)

\* ------------------------------------------------------------------- claims

\* C1: after every Unblock(T,U) that returns success on a registered bot T,
\* GetAppealCount(T,U) = 0 and IsBlocked(T,U) is false.
C1_UnblockResetsCount ==
    \A u \in EndUsers :
        (IsUnban(last, last.tok, u) /\ last.ret = "ok" /\ Records(db, last.tok) # {})
        => /\ AppealCountIn(db, last.tok, u) = 0
           /\ ~IsBlockedIn(db, last.tok, u)

\* C2: while the persisted count of U is 3 or more, no send to U carries an
\* appeal button, and an appeal trigger for U sends the notice that the
\* appeals are used up and sets no appeals flag in any startBot.
C2_NoAppealAtCap ==
    [][\A u \in EndUsers :
          AppealCountIn(db, last'.tok, u) >= 3
          => /\ \A i \in SendsTo(last', u) : last'.sends[i].button = 0
             /\ IsAppealTrigger(last', last'.tok, u)
                => /\ SameAppeals
                   /\ Finishes => last'.sends = <<Send(u, "capped", 0, u, "")>>]_vars

\* C3: a command message whose sender is not the bot's creator leaves the
\* persisted blocked sets and appeal counts as they were.
C3_OnlyOperatorCommands ==
    [][(last'.op = "command" /\ last'.ev.from # last'.cid) => db' = db]_vars

\* C4: a ban that returned success on a bot with a record holds in the store,
\* and a user who is blocked stays blocked over every step that is neither an
\* unban of that user nor the deletion of the bot: over the end of the
\* process, the new start and the loading of the bots in particular.
C4_BanSurvivesRestart ==
    [][\A t \in Tokens, u \in EndUsers :
          /\ (IsBan(last', t, u) /\ last'.ret = "ok" /\ Records(db, t) # {})
             => IsBlockedIn(db', t, u)
          /\ (IsBlockedIn(db, t, u) /\ ~IsUnban(last', t, u)
                /\ ~(last'.op = "DeleteBot.exec" /\ last'.tok = t))
             => IsBlockedIn(db', t, u)]_vars

OperatorMessage(l) == l.ev.type = "message" /\ l.ev.from = l.cid

\* C5 as stated: a message of the creator causes a send to end user X exactly
\* when it replies to a forwarded copy tagged with X.
C5_OperatorSendIffReply ==
    OperatorMessage(last)
    => \A x \in EndUsers : (SendsTo(last, x) # {}) <=> (last.ev.reply = ReplyFwd(x))

\* C5 amended: a message of the creator that is no command causes a send to
\* end user X exactly when it replies to a forwarded copy tagged with X, the
\* send carries its text, and nothing else is sent; a command of the creator
\* causes no send to an end user, reply or not.
C5_ReplyCorrelation ==
    /\ (OperatorMessage(last) /\ last.ev.cmd = "" /\ last.op # "appealText")
       => /\ \A x \in EndUsers :
                (SendsTo(last, x) # {}) <=> (last.ev.reply = ReplyFwd(x))
          /\ last.ev.reply.kind = "fwd"
             => last.sends = <<Send(last.ev.reply.id, "reply", 0,
                                    last.ev.reply.id, last.ev.text)>>
          /\ last.ev.reply.kind # "fwd" => last.sends = <<>>
    /\ (OperatorMessage(last) /\ last.ev.cmd # "" /\ last.op # "appealText")
       => \A x \in EndUsers : SendsTo(last, x) = {}

C5_ReplyDelivered ==
    /\ last.op = "creatorMessage"
    /\ last.ev.reply = ReplyFwd(42)
    /\ last.sends = <<Send(42, "reply", 0, 42, "hi")>>

\* The one outcome C6 gives a message of U, decided by the table rows.
Routed(rows, l) ==
    LET u == l.ev.from
        blocked == IsBlockedIn(rows, l.tok, u)
        count == AppealCountIn(rows, l.tok, u)
    IN l.sends =
         IF blocked /\ count >= 3 THEN <<Send(u, "permanent", 0, u, "")>>
         ELSE IF blocked THEN <<Send(u, "blocked", u, u, "")>>
         ELSE <<Send(l.cid, "forward", 0, u, l.ev.text)>>

\* C6 as stated: the handling of every message of a sender who is not the
\* creator ends in the outcome the persisted state decides.
C6_EveryUserMessageRouted ==
    [][(last'.ev.type = "message" /\ last'.ev.from # last'.cid /\ Finishes)
          => Routed(db, last')]_vars

\* C6 amended: the handling of a message of a sender who is not the creator
\* that is no command and is not taken as appeal text writes nothing to the
\* store and sends one message, at its end: the forwarded copy when the read
\* of isUserBlocked found the sender not listed; else the permanent notice
\* when the read of getAppealCount that follows returned 3 or more, and the
\* notice with the appeal button of the sender when it returned less.  Each
\* read returns what the table holds when it is made.
C6_PlainUserMessageRouted ==
    [][\A w \in 1..Len(workers) :
          (StepOf(w) /\ last'.op = "userMessage")
          => LET u == last'.ev.from
                 t == last'.tok
                 from == workers[w].at
                 to == workers'[w].at
             IN /\ last'.ev.from # last'.cid /\ last'.ev.cmd = ""
                /\ db' = db
                /\ to # "idle" => last'.sends = <<>>
                /\ from = "read"
                   => to = IF IsBlockedIn(db, t, u) THEN "count" ELSE "forward.send"
                /\ from = "count"
                   => to = IF AppealCountIn(db, t, u) >= 3 THEN "permanent.send"
                           ELSE "blocked.send"
                /\ from \in {"idle", "rwait"} => to \in {"read", "rwait"}
                /\ to = "idle"
                   => last'.sends =
                        CASE from = "forward.send" ->
                               <<Send(last'.cid, "forward", 0, u, last'.ev.text)>>
                          [] from = "blocked.send" ->
                               <<Send(u, "blocked", u, u, "")>>
                          [] from = "permanent.send" ->
                               <<Send(u, "permanent", 0, u, "")>>
                          [] OTHER -> <<>>]_vars

\* A blocked sender listed behind another one gets the notice with the button.
C6_BlockedGetsButton ==
    /\ last.op = "userMessage"
    /\ last.sends = <<Send(42, "blocked", 42, 42, "")>>
    /\ \E r \in Records(db, last.tok) : r.blocked_users = <<43, 42>>

\* C7: a Register whose credential is rejected returns the error and leaves
\* the maps, the workers and the store as they were, with nothing for the
\* token in any of them.
C7_InvalidCredentialNoState ==
    [][(last'.op = "AddBot.validate" /\ last'.ret = "err")
          => /\ UNCHANGED <<db, bots, creator, workers, pc>>
             /\ bots'[last'.tok] = 0 /\ creator'[last'.tok] = 0
             /\ \A w \in 1..Len(workers') : workers'[w].token # last'.tok
             /\ Records(db', last'.tok) = {}]_vars

C7_Rejected ==
    /\ last.op = "AddBot.validate" /\ last.ret = "err" /\ last.tok = "bad"
    /\ Len(workers) = 1 /\ Len(db) = 1

\* C8: a token never has two records, and an INSERT of Register that fails
\* leaves the table as it was, with the one record of the token in it.
C8_OneRecordPerToken ==
    /\ [](\A t \in Tokens : Cardinality(RowsOf(db, t)) <= 1)
    /\ [][(last'.op = "AddBot.insert")
            => /\ Cardinality(Records(db', last'.tok)) = 1
               /\ last'.ret = "err" => db' = db]_vars

\* Two Register calls of one token in flight, and the second INSERT failed
\* with the record of the first in place.
C8_LosingInsert ==
    /\ last.op = "AddBot.insert" /\ last.ret = "err"
    /\ \E r \in Records(db, last.tok) : r.creator_id # last.cid

\* C9: a Register of a token that had its record when it was called writes
\* nothing to the store, starts a startBot of the token and returns success.
C9_RegisterExisting ==
    [][(last'.op \in {"AddBot.store", "AddBot.go", "AddBot.exists", "AddBot.insert"}
          /\ call[MainThread].existed)
          => /\ db' = db
             /\ last'.op = "AddBot.go"
                => /\ Len(workers') = Len(workers) + 1
                   /\ workers'[Len(workers')].token = last'.tok
             /\ last'.op \notin {"AddBot.store", "AddBot.go"}
                => /\ last'.op = "AddBot.exists" /\ last'.ret = "ok"
                   /\ \E w \in 1..Len(workers') : workers'[w].token = last'.tok]_vars

\* /newbot for a token that is already running: a second return of success.
C9_RegisteredAgain ==
    /\ last.op = "AddBot.exists" /\ last.ret = "ok"
    /\ Len(workers) = 2 /\ Len(db) = 1

\* C10: at most one startBot polls for a token.
C10_OneWorkerPerToken ==
    \A t \in Tokens : Cardinality(WorkersOf(t)) <= 1

\* C11: when Deregister returns, the token has no entry in either map and no
\* record, whatever the DELETE answered and whatever Register calls of the
\* token are in flight.
C11_DeregisterRemoves ==
    [][(last'.op = "DeleteBot.exec")
          => /\ bots'[last'.tok] = 0
             /\ creator'[last'.tok] = 0
             /\ Records(db', last'.tok) = {}]_vars

\* The startBot goroutines of token t that are inside the handling of an update.
Processing(t) == {w \in WorkersOf(t) : workers[w].at # "idle"}

\* C12: no two updates of one bot are in processing at the same time.
C12_OneEventAtATime ==
    \A t \in Tokens : Cardinality(Processing(t)) <= 1

\* C13: no startBot waits for the read lock because a startBot of another bot
\* is inside a store or send call: with the mutex in no writer's hands, a
\* writer waits for the readers to return and keeps the RLock waiting.
C13_NoCrossBotBlocking ==
    \A a, b \in 1..Len(workers) :
        ~ /\ workers[a].token # workers[b].token
          /\ workers[a].at \in ReadSection
          /\ workers[b].at = "rwait"
          /\ mu = ""
          /\ \E th \in Threads : pc[th] \in {"lockwait", "dlockwait"}

\* C14: nobody who holds the mutex, for writing or for reading, is at a store
\* or network call.
C14_NoLockAcrossCalls ==
    /\ \A th \in Threads : mu = th => pc[th] # "dbdel"
    /\ \A w \in 1..Len(workers) : workers[w].at \notin ReadSection

\* C15: the maps change only in a step of a thread that finds the mutex with
\* no writer and no reader, and no reader is inside while a writer holds it.
C15_WriteLockExcludes ==
    /\ [](mu # "" => \A w \in 1..Len(workers) : workers[w].at \notin ReadSection)
    /\ [][(bots' # bots \/ creator' # creator)
            => /\ mu = ""
               /\ \A w \in 1..Len(workers) : workers[w].at \notin ReadSection]_vars

\* Two startBot goroutines inside handleIncomingMessage at once.
C15_TwoReaders ==
    \E a, b \in 1..Len(workers) :
        a # b /\ workers[a].at \in ReadSection /\ workers[b].at \in ReadSection

\* C16: a message is taken as appeal text exactly when its sender's flag is
\* set in the startBot that takes it; it is sent to the creator as the appeal
\* notice and that flag is cleared; and on a bot with its record the UPDATE of
\* incrementAppealCount leaves the persisted count of the sender greater by
\* exactly 1 than it was.
C16_AppealTextConsumedOnce ==
    [][\A w \in 1..Len(workers) :
          /\ (StepOf(w) /\ workers[w].at = "idle" /\ last'.ev.type = "message")
             => /\ last'.op = "appealText" <=> last'.ev.from \in workers[w].appeals
                /\ last'.op = "appealText"
                   => /\ last'.sends = <<Send(last'.cid, "appeal", 0,
                                              last'.ev.from, last'.ev.text)>>
                      /\ workers'[w].appeals = workers[w].appeals \ {last'.ev.from}
          /\ (StepOf(w) /\ workers[w].at = "inc.update"
                /\ Records(db, last'.tok) # {})
             => AppealCountIn(db', last'.tok, last'.ev.from)
                   = AppealCountIn(db, last'.tok, last'.ev.from) + 1]_vars

\* C17: the persisted appeal count of a user is never above 3.
C17_CountAtMostThree ==
    \A t \in Tokens, u \in EndUsers : AppealCountIn(db, t, u) <= 3

\* C18 as stated: the persisted count of (T,U) goes down only in an unban of
\* U at T, which leaves it 0.
C18_CountDropsOnlyOnUnblock ==
    [][\A t \in Tokens, u \in EndUsers :
          AppealCountIn(db', t, u) < AppealCountIn(db, t, u)
          => IsUnban(last', t, u) /\ AppealCountIn(db', t, u) = 0]_vars

\* C18 amended: the persisted count of (T,U) goes down only to 0, and only
\* in an unban of U at T or in the DELETE of Deregister(T).
C18_CountDropsOnUnblockOrDelete ==
    [][\A t \in Tokens, u \in EndUsers :
          AppealCountIn(db', t, u) < AppealCountIn(db, t, u)
          => /\ AppealCountIn(db', t, u) = 0
             /\ \/ IsUnban(last', t, u)
                \/ last'.op = "DeleteBot.exec" /\ last'.tok = t]_vars

\* An unban of 42 whose UPDATE of appeal_counts has taken the count of 42
\* from above 0 to 0, with 43 still listed.
C18_UnbannedAtZero ==
    /\ IsUnban(last, last.tok, 42) /\ last.ret = "ok"
    /\ <<last.tok, 42>> \in last.lowered
    /\ AppealCountIn(db, last.tok, 42) = 0
    /\ ~IsBlockedIn(db, last.tok, 42) /\ IsBlockedIn(db, last.tok, 43)

\* C19: when a call of unblockUser that has written the blocked list without
\* U returns, whatever it returns, the count of U is 0.
C19_UnblockResetsTogether ==
    [][\A w \in 1..Len(workers) :
          (StepOf(w) /\ workers[w].at \in {"unban.select", "unban.reset"}
             /\ workers'[w].at \notin {"unban.select", "unban.reset"}
             /\ InList(workers[w].blockedUsers, last'.ev.arg.id))
          => AppealCountIn(db', last'.tok, last'.ev.arg.id) = 0]_vars

\* C20: a call of blockUser, unblockUser or incrementAppealCount that returns
\* an error writes nothing in the step that fails and has written nothing
\* before: the blocked list in the table is the one the call read.
C20_FailedCallLeavesStore ==
    [][\A w \in 1..Len(workers) :
          (StepOf(w) /\ last'.ret = "err")
          => /\ db' = db
             /\ workers[w].at \in {"ban.update", "block.update", "unban.update",
                                   "unban.select", "unban.reset"}
                => SelectBlockedUsers(db, last'.tok) = workers[w].blockedUsers]_vars

\* The appeal text of u was awaited at bot token when a process ended, and u
\* has not been armed again since.
Forgotten(token, u) == <<token, "armed", u>> \in chat

\* The step just taken belongs to the handling of a message of a user whose
\* appeal the end of a process has left unanswered; first says that it is
\* the step in which startBot w takes the message.
OfForgotten(w, first) ==
    /\ StepOf(w)
    /\ last'.ev.type = "message"
    /\ Forgotten(last'.tok, last'.ev.from)
    /\ first => workers[w].at = "idle"

\* C21 as stated: a restart leaves the table as it was and no appeals flag;
\* a message of a user who was awaiting appeal before the restart is handled
\* as an ordinary incoming message, and its handling leaves the count of the
\* user as it was.
C21_ForgottenMessageOrdinary ==
    [][/\ last'.op = "restart"
          => /\ db' = db
             /\ \A w \in 1..Len(workers') : workers'[w].appeals = {}
       /\ \A w \in 1..Len(workers) :
             /\ OfForgotten(w, TRUE) => last'.op = "userMessage"
             /\ OfForgotten(w, FALSE)
                => AppealCountIn(db', last'.tok, last'.ev.from)
                      = AppealCountIn(db, last'.tok, last'.ev.from)]_vars

\* C21 amended: a restart leaves the table as it was and no appeals flag; a
\* message of a user who was awaiting appeal before the restart is not taken
\* as appeal text, whatever the table holds for the user; when it is no
\* command it is handled as an ordinary incoming message, and that handling
\* writes nothing to the table.  (This holds of every message of the user
\* until an appeal trigger arms the user again, the first one included.)
C21_RestartDisarms ==
    [][/\ last'.op = "restart"
          => /\ db' = db
             /\ \A w \in 1..Len(workers') : workers'[w].appeals = {}
       /\ FlagSet => (last'.op = "callback" /\ last'.ev.cmd = "appeal_")
       /\ \A w \in 1..Len(workers) :
             /\ OfForgotten(w, TRUE)
                => /\ last'.op # "appealText"
                   /\ last'.ev.cmd = "" => last'.op = "userMessage"
             /\ (OfForgotten(w, FALSE) /\ last'.ev.cmd = "")
                => (last'.op = "userMessage" /\ db' = db)]_vars

\* User 42, blocked and with one appeal counted, was armed for a second
\* appeal when the process ended; after the new start the message of 42 has
\* gone through handleIncomingMessage and got the notice with the appeal
\* button, the count being 1 as before.
C21_ForgottenAppealRouted ==
    /\ last.op = "userMessage" /\ last.ev.from = 42
    /\ last.sends = <<Send(42, "blocked", 42, 42, "")>>
    /\ Forgotten(last.tok, 42)
    /\ IsBlockedIn(db, last.tok, 42) /\ AppealCountIn(db, last.tok, 42) = 1
    /\ \A w \in 1..Len(workers) : workers[w].appeals = {}

\* C22: an appeals flag of U is set only while U is in the persisted blocked
\* set of the bot and the count of U is below 3.
C22_ArmedOnlyWhileBlocked ==
    [][\A w \in 1..Len(workers'), u \in EndUsers :
          (w <= Len(workers) /\ u \in workers'[w].appeals
             /\ u \notin workers[w].appeals)
          => /\ IsBlockedIn(db, workers[w].token, u)
             /\ AppealCountIn(db, workers[w].token, u) < 3]_vars

\* C23: a ban that returns success leaves the user in the persisted blocked
\* set, at every moment a startBot of the bot runs.
C23_BlockSuccessIsBlocked ==
    [][\A u \in EndUsers :
          (IsBan(last', last'.tok, u) /\ last'.ret = "ok")
          => IsBlockedIn(db', last'.tok, u)]_vars

\* C24: with no AddBot or DeleteBot call in progress, a token is in the maps
\* exactly when it has a record.
C24_MapsMatchRecords ==
    (\A th \in Threads : pc[th] = "idle")
    => \A t \in Tokens :
          (bots[t] # 0 /\ creator[t] # 0) <=> (Records(db, t) # {})

\* The Data of callback query ev is one of the three prefixes and an integer.
WellFormed(ev) ==
    ev.cmd \in {"appeal_", "ban_", "unban_"} /\ ev.arg.kind = "id"

\* C25: a callback query whose data is not ban_, unban_ or appeal_ with an
\* integer changes neither the table nor any appeals flag and sends nothing;
\* and a callback query of any data whose acknowledgement fails does the
\* same, so that no change is made before the acknowledgement.
C25_OtherCallbackIgnored ==
    [][(last'.ev.type = "callback"
          /\ (~WellFormed(last'.ev) \/ last'.ret = "noack"))
          => /\ db' = db
             /\ workers' = workers
             /\ last'.sends = <<>>]_vars

\* The data "ban_" with a rest that is no integer, acknowledged and dropped
\* on a bot that has a user blocked and one armed for an appeal.
C25_MalformedBanDropped ==
    /\ last.ev.type = "callback" /\ last.ret = ""
    /\ last.ev.cmd = "ban_" /\ last.ev.arg = ArgNotInt
    /\ IsBlockedIn(db, last.tok, 42)
    /\ \E w \in 1..Len(workers) : 42 \in workers[w].appeals

====
